---- MODULE Spec2Model ----
(***************************************************************************)
(* Model of the tick buffer (useDerivWebSocket.addTick), of the two        *)
(* prediction engines (usePredictionEngine, useAdvancedPredictionEngine)   *)
(* and of the dashboard state that feeds them (TradingDashboard).          *)
(*                                                                         *)
(* React is modelled by its observable rules: every state change is        *)
(* followed by one render; a useCallback keeps its previous closure unless *)
(* one of its dependencies changed; a useEffect whose dependencies changed *)
(* runs its cleanup and then its body.  A timer callback runs the closure  *)
(* that was passed to setInterval, with the values that closure captured.  *)
(*                                                                         *)
(* Probabilities and confidences are percentages (75 is 0.75).  The        *)
(* predictors draw Math.random(), so one analysis run's predictions are an *)
(* input of the run, chosen from small sets.                               *)
(***************************************************************************)
EXTENDS Integers, Sequences, FiniteSets, TLC

VARIABLES
    variant,              \* which hook the dashboard mounts: "basic" or "advanced"
    selectedSymbol,       \* TradingDashboard state
    isActive,             \* TradingDashboard state (passed as isActiveTrading)
    riskSettings,         \* TradingDashboard state
    ticks,                \* useDerivWebSocket state: symbol -> tick buffer
    received,             \* history: number of ticks ever received per symbol
    digitPredictions,     \* engine state (sorted; only element 0 is ever read)
    bandPrediction,       \* engine state
    signals,              \* engine state: the Signal Log
    features,             \* engine state
    tenSecondPrediction,  \* advanced engine state (its top prediction)
    runCountRef,          \* engine ref
    runResultsRef,        \* engine ref
    analysisCallback,     \* the memoized performAnalysis (its captured values)
    analysisIntervalRef,  \* engine ref: the interval last armed
    armedAt,              \* the time at which that interval was armed
    timers,               \* the armed analysis intervals (their callbacks)
    nextId,               \* history: number of signals ever created (uuid source)
    last,                 \* history: what the last step did
    calc,                 \* one evaluation of the extractor and the predictors
    exported,             \* the document of the last XML export
    ws,                   \* useDerivWebSocket: the socket and its reconnect timer
    now                   \* the time, in milliseconds

vars ==
    << now, variant, selectedSymbol, isActive, riskSettings, ticks, received,
       digitPredictions, bandPrediction, signals, features,
       tenSecondPrediction, runCountRef, runResultsRef, analysisCallback, analysisIntervalRef, armedAt, timers, nextId, last,
       calc, exported, ws >>

----------------------------------------------------------------------------
(* Program constants *)

MAX_TICKS ==
    100

MAX_SIGNAL_HISTORY ==
    50

MAX_RUNS_PER_CYCLE ==
    4

MIN_TICKS_BASIC ==
    10

MIN_TICKS_ADVANCED ==
    20

ADVANCED_MIN_CONFIDENCE ==
    60

WINDOW_BASIC ==
    30

WINDOW_ADVANCED ==
    50

(* Bounds of the model *)

ExtraTicks ==
    1

MaxSignals ==
    1

FeedExtra ==
    2

LogExtra ==
    2

----------------------------------------------------------------------------
(* Value sets *)

Symbols ==
    {"R_50", "R_10_1S"}

DefaultSymbol ==
    "R_50"

ThresholdChoices ==
    {75}

RequiredRunsChoices ==
    {2, 3}

DefaultRiskSettings ==
    [probabilityThreshold |-> 75, requiredRuns |-> 3, stake |-> 1]

NoFeatures ==
    [symbol |-> "none", from |-> 0, upto |-> 0]

NoBandPrediction ==
    [over2 |-> 0, under7 |-> 0, confidence |-> 0]

NoTimer ==
    [symbol |-> "none", ticks |-> << >>, riskSettings |-> DefaultRiskSettings,
     isActiveTrading |-> FALSE, features |-> NoFeatures]

NoDigit ==
    -1

NoTop ==
    [digit |-> NoDigit, probability |-> 0, confidence |-> 0]

(* One run's predictions: the top entry of predictDigit's result, predictBand's
   result and, in the advanced engine, the top entry of the independent
   ten-second prediction. *)
DigitTops ==
    {[digit |-> 3, probability |-> 80, confidence |-> 80],
     [digit |-> 5, probability |-> 80, confidence |-> 80],
     [digit |-> 5, probability |-> 50, confidence |-> 80]}

TenSecondTops ==
    {[digit |-> 3, probability |-> 80, confidence |-> 80],
     [digit |-> 5, probability |-> 80, confidence |-> 50],
     [digit |-> 5, probability |-> 50, confidence |-> 80]}

BandPredictions ==
    {[over2 |-> 80, under7 |-> 40, confidence |-> 50],
     [over2 |-> 80, under7 |-> 40, confidence |-> 80],
     [over2 |-> 40, under7 |-> 80, confidence |-> 80]}

BasicOutcomes ==
    [top : DigitTops, band : BandPredictions, tenSec : {NoTop}]

AdvancedOutcomes ==
    [top : {[digit |-> 3, probability |-> 80, confidence |-> 50],
            [digit |-> 5, probability |-> 50, confidence |-> 80]},
     band : BandPredictions,
     tenSec : TenSecondTops]

----------------------------------------------------------------------------
(* Pure helpers *)

Min(a, b) ==
    IF a <= b THEN a ELSE b

Max(a, b) ==
    IF a >= b THEN a ELSE b

(* Mutant of AppendTick: slice(0, 100), which keeps the oldest ticks. *)
AppendTick_KeepOldest(symbolTicks, tick) ==
    LET all == Append(symbolTicks, tick)
    IN  SubSeq(all, 1, Min(MAX_TICKS, Len(all)))

(* [...symbolTicks, tick].slice(-100) *)
AppendTick(symbolTicks, tick) ==
    LET all == Append(symbolTicks, tick)
    IN  SubSeq(all, Max(1, Len(all) - MAX_TICKS + 1), Len(all))

(* Mutant of Snapshot: slice(0, window), the leading window. *)
Snapshot_LeadingWindow(tickData, window) ==
    [symbol |-> tickData[1].symbol, from |-> tickData[1].seq,
     upto |-> tickData[Min(Len(tickData), window)].seq]

(* The snapshot of the trailing window of tickData: it is identified by the
   symbol and by the first and last tick of the window. *)
Snapshot(tickData, window) ==
    LET n == Len(tickData)
        first == tickData[Max(1, n - window + 1)]
    IN  [symbol |-> first.symbol, from |-> first.seq, upto |-> tickData[n].seq]

extractFeatures(tickData) ==
    IF Len(tickData) < MIN_TICKS_BASIC THEN NoFeatures
    ELSE Snapshot(tickData, WINDOW_BASIC)

extractAdvancedFeatures(tickData) ==
    IF Len(tickData) < MIN_TICKS_ADVANCED THEN NoFeatures
    ELSE Snapshot(tickData, WINDOW_ADVANCED)

(* bandPred.over2 > bandPred.under7 ? 'over2' : 'under7' *)
TopBand(bandPred) ==
    IF bandPred.over2 > bandPred.under7 THEN "over2" ELSE "under7"

(* The RunResult pushed by one run of the basic engine. *)
RunResult(topDigit, bandPred, threshold) ==
    [digit |-> topDigit.digit,
     band  |-> IF topDigit.probability >= threshold THEN "none"
               ELSE TopBand(bandPred)]

DigitVotes(results, d) ==
    Cardinality({i \in 1..Len(results) : results[i].digit = d})

BandVotes(results, b) ==
    Cardinality({i \in 1..Len(results) : results[i].band = b})

FirstBandIndex(results, b) ==
    CHOOSE i \in 1..Len(results) :
        /\ results[i].band = b
        /\ \A j \in 1..(i - 1) : results[j].band # b

(* Object.entries(digitVotes).sort by votes, descending, first entry.  The keys
   of digitVotes are integers, which Object.entries lists in ascending order,
   and the sort is stable: among the most voted digits the smallest wins. *)
consensusDigit(results) ==
    LET voted == {results[i].digit : i \in 1..Len(results)}
    IN  CHOOSE d \in voted :
            \A e \in voted :
                \/ DigitVotes(results, d) > DigitVotes(results, e)
                \/ DigitVotes(results, d) = DigitVotes(results, e) /\ d <= e

(* Object.entries(bandVotes).sort by votes, descending, first entry.  The keys
   are strings, listed in insertion order: among the most voted labels the one
   met first in the results wins. *)
consensusBand(results) ==
    LET voted == {results[i].band : i \in 1..Len(results)}
    IN  CHOOSE b \in voted :
            \A c \in voted :
                \/ BandVotes(results, b) > BandVotes(results, c)
                \/ /\ BandVotes(results, b) = BandVotes(results, c)
                   /\ FirstBandIndex(results, b) <= FirstBandIndex(results, c)

(* The decision of a cycle evaluation of the basic engine (the if / else if of
   performAnalysis): the signal type to generate, or "none". *)
Decision(results, topDigit, bandPred, rs, active) ==
    LET digitVoteCount == DigitVotes(results, consensusDigit(results))
        winner == consensusBand(results)
        bandVoteCount == BandVotes(results, winner)
    IN  IF ~active THEN "none"
        ELSE IF /\ digitVoteCount >= rs.requiredRuns
                /\ topDigit.probability >= rs.probabilityThreshold
             THEN "exact_digit"
        ELSE IF /\ winner # "none"
                /\ bandVoteCount >= rs.requiredRuns
                /\ bandPred.confidence >= rs.probabilityThreshold
             THEN "over_under"
        ELSE "none"

(* Mutant of NewSignal: the signal is created as executed. *)
NewSignal_Executed(id, symbol, type, predictedDigit, predictedBand, confidence, runs, feat) ==
    [id |-> id, symbol |-> symbol, type |-> type,
     predicted_digit |-> predictedDigit, predicted_band |-> predictedBand,
     confidence |-> IF confidence = 0 THEN 50 ELSE confidence,
     runs |-> IF runs = 0 THEN 1 ELSE runs,
     status |-> "executed", features |-> feat]

(* The TradingSignal built by generateSignal / generateAdvancedSignal. *)
NewSignal(id, symbol, type, predictedDigit, predictedBand, confidence, runs, feat) ==
    [id |-> id, symbol |-> symbol, type |-> type,
     predicted_digit |-> predictedDigit, predicted_band |-> predictedBand,
     confidence |-> IF confidence = 0 THEN 50 ELSE confidence,
     runs |-> IF runs = 0 THEN 1 ELSE runs,
     status |-> "pending", features |-> feat]

(* Mutant of PrependSignal: [...prev, signal].slice(0, 50), which drops the
   new signal once the log is full. *)
PrependSignal_AtEnd(signal, prev) ==
    SubSeq(prev \o <<signal>>, 1, Min(MAX_SIGNAL_HISTORY, Len(prev) + 1))

(* [signal, ...prev].slice(0, 50) *)
PrependSignal(signal, prev) ==
    SubSeq(<<signal>> \o prev, 1, Min(MAX_SIGNAL_HISTORY, Len(prev) + 1))

(* generateSignal called with the symbol and features its closure captured:
   TRUE when it creates a signal, FALSE when it returns early. *)
GeneratesSignal(type, feat) ==
    type # "none" /\ feat # NoFeatures

(* The Signal Log after generateSignal. *)
generateSignal(type, symbol, feat, predictedDigit, predictedBand, confidence, runs) ==
    IF GeneratesSignal(type, feat)
    THEN PrependSignal(
             NewSignal(nextId + 1, symbol, type,
                       IF type = "exact_digit" THEN predictedDigit ELSE NoDigit,
                       IF type = "over_under" THEN predictedBand ELSE "none",
                       confidence, runs, feat),
             signals)
    ELSE signals

----------------------------------------------------------------------------
(* Rendering: useCallback and useEffect *)

MinTicks ==
    IF variant = "basic" THEN MIN_TICKS_BASIC ELSE MIN_TICKS_ADVANCED

(* The ticks prop of the engine: ticks[selectedSymbol] || [] *)
TicksProp(allTicks, symbol) ==
    allTicks[symbol]

(* The values a performAnalysis / performAdvancedAnalysis closure captures in a
   render.  generateSignal is captured with it, and generateSignal's own
   dependencies (symbol, features) make it the one of the same render. *)
Closure(symbol, tickData, rs, active, feat) ==
    [symbol |-> symbol, ticks |-> tickData, riskSettings |-> rs,
     isActiveTrading |-> active, features |-> feat]

(* Did a dependency of the memoized analysis callback change in the render that
   follows a step?  usePredictionEngine: [ticks, riskSettings] (the pure helpers
   and toast never change).  useAdvancedPredictionEngine: also isActiveTrading
   and, through generateTenSecondPrediction, features.  An absent buffer is a
   new [] in every render; riskSet and featSet say that the step stored a new
   riskSettings or features object. *)
DepsChanged(symbol2, ticks2, active2, riskSet, featSet) ==
    \/ TicksProp(ticks2, symbol2) # TicksProp(ticks, selectedSymbol)
    \/ TicksProp(ticks2, symbol2) = << >>
    \/ riskSet
    \/ variant = "advanced" /\ (active2 # isActive \/ featSet)

(* Mutant of ClearInterval: the cleanup of the interval effect is missing. *)
ClearInterval_Missing(armed, intervalRef) ==
    armed

(* The cleanup of the interval effect: clearInterval(analysisIntervalRef.current) *)
ClearInterval(armed, intervalRef) ==
    armed \ {intervalRef}

(* The render after a step that leaves the dashboard and engine state
   symbol2, ticks2, rs2, active2, feat2: the callback is re-memoized when a
   dependency changed, and then the interval effect ([ticks.length,
   performAnalysis]) clears the interval of analysisIntervalRef and arms a new
   one when the buffer is long enough. *)
Render(symbol2, ticks2, rs2, active2, feat2, riskSet, featSet) ==
    LET tickData == TicksProp(ticks2, symbol2)
        callback == Closure(symbol2, tickData, rs2, active2, feat2)
        cleared  == ClearInterval(timers, analysisIntervalRef)
    IN  IF DepsChanged(symbol2, ticks2, active2, riskSet, featSet)
        THEN /\ analysisCallback' = callback
             /\ IF Len(tickData) >= MinTicks
                THEN /\ timers' = cleared \cup {callback}
                     /\ analysisIntervalRef' = callback
                     /\ armedAt' = now
                ELSE /\ timers' = cleared
                     /\ UNCHANGED << analysisIntervalRef, armedAt >>
        ELSE UNCHANGED << analysisCallback, analysisIntervalRef, armedAt, timers >>

(* History of the last step.  op: "run", "manual", "tick" or "other"; len: the
   length of the buffer the run read; ran: the run passed its guards; evaluated: it
   evaluated a cycle; results: the RunResults it tallied; decided: the signal
   type it called generateSignal for; emitted, created: the signal it
   appended; wasActive: isActive when it ran; cycleActive: isActive
   held at every run of the cycle so far; threw: an exception was raised in
   the run; toast: the "Analysis Error" toast was shown; escaped: the exception
   left the callback; faults: the number of exceptions raised so far;
   signalId: the id an export ("export") was asked for; tickAt: the time of
   the last tick; firedAt: the time at which an interval last fired;
   cycleSymbols: the symbols whose ticks the RunResults accumulated so far
   were computed from. *)
Step(op) ==
    [op |-> op, len |-> 0, ran |-> FALSE,
     evaluated |-> FALSE, decided |-> "none", emitted |-> "none",
     created |-> 0,
     results |-> << >>, wasActive |-> isActive,
     cycleActive |-> last.cycleActive,
     threw |-> FALSE, toast |-> FALSE, escaped |-> FALSE,
     faults |-> last.faults, signalId |-> 0,
     tickAt |-> IF op = "tick" THEN now ELSE last.tickAt,
     firedAt |-> IF op = "run" THEN now ELSE last.firedAt,
     cycleSymbols |-> last.cycleSymbols]

(* Nothing has been exported. *)
NoDocument ==
    [SYMBOL |-> "none"]

(* No evaluation of the predictors is in progress. *)
NoCalc ==
    [phase |-> "none"]

----------------------------------------------------------------------------
(* Initial state: the dashboard is mounted, nothing has been received *)

InitEngine ==
    /\ exported = NoDocument
    /\ ws = [readyState |-> "CONNECTING", code |-> 0, reconnectTimeout |-> 0,
             delays |-> << >>, subscriptions |-> {DefaultSymbol}, sent |-> {}]
    /\ selectedSymbol = DefaultSymbol
    /\ isActive = FALSE
    /\ riskSettings = DefaultRiskSettings
    /\ ticks = [s \in Symbols |-> << >>]
    /\ received = [s \in Symbols |-> 0]
    /\ digitPredictions = << >>
    /\ bandPrediction = NoBandPrediction
    /\ signals = << >>
    /\ features = NoFeatures
    /\ tenSecondPrediction = NoTop
    /\ runCountRef = 0
    /\ runResultsRef = << >>
    /\ analysisCallback =
           Closure(DefaultSymbol, << >>, DefaultRiskSettings, FALSE, NoFeatures)
    /\ analysisIntervalRef = NoTimer
    /\ armedAt = 0
    /\ now = 0
    /\ timers = {}
    /\ nextId = 0
    /\ last = [op |-> "other", len |-> 0, ran |-> FALSE,
               evaluated |-> FALSE, decided |-> "none", emitted |-> "none",
               created |-> 0,
               results |-> << >>, wasActive |-> FALSE, cycleActive |-> FALSE,
               threw |-> FALSE, toast |-> FALSE, escaped |-> FALSE,
               faults |-> 0, signalId |-> 0, tickAt |-> 0, firedAt |-> 0,
               cycleSymbols |-> {}]

Init ==
    /\ variant \in {"basic", "advanced"}
    /\ calc = NoCalc
    /\ InitEngine

----------------------------------------------------------------------------
(* Dashboard and feed operations *)

(* useDerivWebSocket.addTick: a tick message for symbol arrives *)
addTick(symbol) ==
    LET tick == [symbol |-> symbol, seq |-> received[symbol] + 1]
        ticks2 == [ticks EXCEPT ![symbol] = AppendTick(ticks[symbol], tick)]
    IN  /\ ticks' = ticks2
        /\ received' = [received EXCEPT ![symbol] = received[symbol] + 1]
        /\ last' = Step("tick")
        /\ Render(selectedSymbol, ticks2, riskSettings, isActive, features,
                  FALSE, FALSE)
        /\ UNCHANGED << calc, exported, ws, now, variant, selectedSymbol, isActive, riskSettings,
                        digitPredictions, bandPrediction, signals, features,
                        tenSecondPrediction, runCountRef, runResultsRef, nextId >>

(* TradingDashboard.handleStartStop *)
handleStartStop ==
    /\ isActive' = ~isActive
    /\ last' = Step("other")
    /\ Render(selectedSymbol, ticks, riskSettings, ~isActive, features,
              FALSE, FALSE)
    /\ UNCHANGED << calc, exported, ws, now, variant, selectedSymbol, riskSettings, ticks, received,
                    digitPredictions, bandPrediction, signals, features,
                    tenSecondPrediction, runCountRef, runResultsRef, nextId >>

(* RiskControls onChange: setRiskSettings with a new object *)
setRiskSettings(rs) ==
    /\ riskSettings' = rs
    /\ last' = Step("other")
    /\ Render(selectedSymbol, ticks, rs, isActive, features, TRUE, FALSE)
    /\ UNCHANGED << calc, exported, ws, now, variant, selectedSymbol, isActive, ticks, received,
                    digitPredictions, bandPrediction, signals, features,
                    tenSecondPrediction, runCountRef, runResultsRef, nextId >>

(* useDerivWebSocket.unsubscribe: the symbol leaves subscriptionsRef (and
   forget_all is sent on an open socket); the ticks state is not touched. *)
unsubscribe(subscriptions, symbol) ==
    subscriptions \ {symbol}

(* useDerivWebSocket.subscribe: the symbol enters subscriptionsRef *)
subscribe(subscriptions, symbol) ==
    subscriptions \cup {symbol}

(* unsubscribe on the wire: { forget_all: 'ticks' } is sent on an OPEN
   socket and ends every tick stream of the connection.  sent is the set of
   symbols whose tick stream was requested on the current connection. *)
ForgetAll(readyState, sent) ==
    IF readyState = "OPEN" THEN {} ELSE sent

(* subscribe on the wire: { ticks: symbol, subscribe: 1 } is sent only on an
   OPEN socket. *)
SendSubscribe(readyState, sent, symbol) ==
    IF readyState = "OPEN" THEN sent \cup {symbol} ELSE sent

(* AssetSelector onSymbolChange: setSelectedSymbol; the subscription effect
   of the dashboard unsubscribes the old symbol and subscribes the new one. *)
setSelectedSymbol(symbol) ==
    /\ symbol # selectedSymbol
    /\ selectedSymbol' = symbol
    /\ ws' = [ws EXCEPT
                  !.subscriptions =
                      subscribe(unsubscribe(@, selectedSymbol), symbol),
                  !.sent = SendSubscribe(ws.readyState,
                                         ForgetAll(ws.readyState, @), symbol)]
    /\ last' = Step("other")
    /\ Render(symbol, ticks, riskSettings, isActive, features, FALSE, FALSE)
    /\ UNCHANGED << calc, exported, now, variant, isActive, riskSettings, ticks, received,
                    digitPredictions, bandPrediction, signals, features,
                    tenSecondPrediction, runCountRef, runResultsRef, nextId >>

----------------------------------------------------------------------------
(* Engine operations *)

(* Mutant of InsufficientData: the early returns are missing. *)
InsufficientData_Never(tickData, currentFeatures) ==
    FALSE

(* The two early returns of an analysis run: the buffer is shorter than the
   minimum, or the extractor returned null. *)
InsufficientData(tickData, currentFeatures) ==
    Len(tickData) < MinTicks \/ currentFeatures = NoFeatures

(* Mutant of ResetCycle: the reset is done only in the branches that
   generate a signal. *)
ResetCycle_OnlyOnSignal(evaluate, decision) ==
    evaluate /\ decision # "none"

(* "Reset for next cycle" sits in the evaluation block, outside the
   signal / no signal branches. *)
ResetCycle(evaluate, decision) ==
    evaluate

(* usePredictionEngine.performAnalysis, run by an armed interval with the
   values callback captured and the predictions out of this run. *)
performAnalysis(callback, out) ==
    LET currentFeatures == extractFeatures(callback.ticks)
        rs       == callback.riskSettings
        count    == runCountRef + 1
        results  == Append(runResultsRef,
                           RunResult(out.top, out.band, rs.probabilityThreshold))
        evaluate == count >= MAX_RUNS_PER_CYCLE
        decision == IF evaluate
                    THEN Decision(results, out.top, out.band, rs,
                                  callback.isActiveTrading)
                    ELSE "none"
        creates  == GeneratesSignal(decision, callback.features)
    IN  /\ variant = "basic"
        /\ IF InsufficientData(callback.ticks, currentFeatures)
           THEN /\ last' = [Step("run") EXCEPT !.len = Len(callback.ticks)]
                /\ UNCHANGED << calc, exported, ws, now, variant, selectedSymbol, isActive, riskSettings,
                                ticks, received, digitPredictions,
                                bandPrediction, signals, features,
                                tenSecondPrediction, runCountRef,
                                runResultsRef, analysisCallback,
                                analysisIntervalRef, armedAt, timers, nextId >>
           ELSE /\ features' = currentFeatures
                /\ digitPredictions' = << out.top >>
                /\ bandPrediction' = out.band
                /\ signals' =
                       generateSignal(decision, callback.symbol,
                           callback.features, consensusDigit(results),
                           consensusBand(results),
                           IF decision = "exact_digit" THEN out.top.confidence
                           ELSE out.band.confidence,
                           count)
                /\ nextId' = IF creates THEN nextId + 1 ELSE nextId
                /\ runCountRef' = IF ResetCycle(evaluate, decision) THEN 0 ELSE count
                /\ runResultsRef' =
                       IF ResetCycle(evaluate, decision) THEN << >> ELSE results
                /\ last' = [Step("run") EXCEPT
                            !.len = Len(callback.ticks),
                            !.ran = TRUE, !.evaluated = evaluate,
                            !.decided = decision,
                            !.emitted = IF creates THEN decision ELSE "none",
                            !.created = IF creates THEN 1 ELSE 0,
                            !.results = IF evaluate THEN results ELSE << >>,
                            !.cycleActive =
                                isActive /\ (runCountRef = 0 \/ last.cycleActive),
                            !.cycleSymbols =
                                (IF runResultsRef = << >> THEN {} ELSE @)
                                    \cup {callback.symbol}]
                /\ Render(selectedSymbol, ticks, riskSettings, isActive,
                          currentFeatures, FALSE, TRUE)
                /\ UNCHANGED << calc, exported, ws, now, variant, selectedSymbol, isActive, riskSettings,
                                ticks, received, tenSecondPrediction >>

(* generateTenSecondPrediction as captured by the analysis callback: null
   without captured features or with a short buffer. *)
generateTenSecondPrediction(callback, tenSec) ==
    IF callback.features = NoFeatures \/ Len(callback.ticks) < MIN_TICKS_ADVANCED
    THEN NoTop
    ELSE tenSec

(* The if / else if of performAdvancedAnalysis: the signal type, or "none". *)
AdvancedDecision(tenSecPred, bandPred, rs, active) ==
    IF ~(active /\ tenSecPred # NoTop) THEN "none"
    ELSE IF /\ tenSecPred.probability >= rs.probabilityThreshold
            /\ tenSecPred.confidence >= ADVANCED_MIN_CONFIDENCE
         THEN "exact_digit"
    ELSE IF bandPred.confidence >= rs.probabilityThreshold
         THEN "over_under"
    ELSE "none"

(* useAdvancedPredictionEngine.performAdvancedAnalysis *)
performAdvancedAnalysis(callback, out) ==
    LET currentFeatures == extractAdvancedFeatures(callback.ticks)
        rs         == callback.riskSettings
        tenSecPred == generateTenSecondPrediction(callback, out.tenSec)
        decision   == AdvancedDecision(tenSecPred, out.band, rs,
                                       callback.isActiveTrading)
        creates    == GeneratesSignal(decision, callback.features)
    IN  /\ variant = "advanced"
        /\ IF InsufficientData(callback.ticks, currentFeatures)
           THEN /\ last' = [Step("run") EXCEPT !.len = Len(callback.ticks)]
                /\ UNCHANGED << calc, exported, ws, now, variant, selectedSymbol, isActive, riskSettings,
                                ticks, received, digitPredictions,
                                bandPrediction, signals, features,
                                tenSecondPrediction, runCountRef,
                                runResultsRef, analysisCallback,
                                analysisIntervalRef, armedAt, timers, nextId >>
           ELSE /\ features' = currentFeatures
                /\ digitPredictions' = << out.top >>
                /\ bandPrediction' = out.band
                /\ tenSecondPrediction' = tenSecPred
                /\ signals' =
                       generateSignal(decision, callback.symbol,
                           callback.features, tenSecPred.digit,
                           TopBand(out.band),
                           IF decision = "exact_digit" THEN tenSecPred.confidence
                           ELSE out.band.confidence,
                           1)
                /\ nextId' = IF creates THEN nextId + 1 ELSE nextId
                /\ last' = [Step("run") EXCEPT
                            !.len = Len(callback.ticks),
                            !.ran = TRUE,
                            !.decided = decision,
                            !.emitted = IF creates THEN decision ELSE "none",
                            !.created = IF creates THEN 1 ELSE 0,
                            !.cycleActive = isActive,
                            !.cycleSymbols = {callback.symbol}]
                /\ Render(selectedSymbol, ticks, riskSettings, isActive,
                          currentFeatures, FALSE, TRUE)
                /\ UNCHANGED << calc, exported, ws, now, variant, selectedSymbol, isActive, riskSettings,
                                ticks, received, runCountRef, runResultsRef >>

(* Mutant of ManualDecision: the band is tried before the digit. *)
ManualDecision_BandFirst(preds, bandPred, rs) ==
    IF preds = << >> THEN "none"
    ELSE IF bandPred # NoBandPrediction
            /\ bandPred.confidence >= rs.probabilityThreshold
         THEN "over_under"
    ELSE IF preds[1].probability >= rs.probabilityThreshold THEN "exact_digit"
    ELSE "none"

(* The if / else if of manualGenerateSignal (both engines). *)
ManualDecision(preds, bandPred, rs) ==
    IF preds = << >> THEN "none"
    ELSE IF preds[1].probability >= rs.probabilityThreshold THEN "exact_digit"
    ELSE IF bandPred # NoBandPrediction
            /\ bandPred.confidence >= rs.probabilityThreshold
         THEN "over_under"
    ELSE "none"

(* manualGenerateSignal: its dependencies make it the callback of the latest
   render, so it reads the current state. *)
manualGenerateSignal ==
    LET decision == ManualDecision(digitPredictions, bandPrediction, riskSettings)
        creates  == GeneratesSignal(decision, features)
    IN  /\ signals' =
               generateSignal(decision, selectedSymbol, features,
                   IF digitPredictions = << >> THEN NoDigit
                   ELSE digitPredictions[1].digit,
                   TopBand(bandPrediction),
                   IF decision = "exact_digit"
                   THEN digitPredictions[1].confidence
                   ELSE bandPrediction.confidence,
                   1)
        /\ nextId' = IF creates THEN nextId + 1 ELSE nextId
        /\ last' = [Step("manual") EXCEPT
                        !.decided = decision,
                        !.emitted = IF creates THEN decision ELSE "none",
                        !.created = IF creates THEN 1 ELSE 0]
        /\ IF creates
           THEN Render(selectedSymbol, ticks, riskSettings, isActive, features,
                       FALSE, FALSE)
           ELSE UNCHANGED << analysisCallback, analysisIntervalRef, armedAt, timers >>
        /\ UNCHANGED << calc, exported, ws, now, variant, selectedSymbol, isActive, riskSettings, ticks,
                        received, digitPredictions, bandPrediction, features,
                        tenSecondPrediction, runCountRef, runResultsRef >>

----------------------------------------------------------------------------
(* Specification *)

RiskChoices ==
    [probabilityThreshold : ThresholdChoices, requiredRuns : RequiredRunsChoices,
     stake : {1}]


Next ==
    \/ \E s \in {selectedSymbol} :
           received[s] < MinTicks + ExtraTicks /\ addTick(s)
    \/ handleStartStop
    \/ \E rs \in RiskChoices : setRiskSettings(rs)
    \/ \E callback \in timers, out \in BasicOutcomes :
           nextId < MaxSignals /\ performAnalysis(callback, out)
    \/ \E callback \in timers, out \in AdvancedOutcomes :
           nextId < MaxSignals /\ performAdvancedAnalysis(callback, out)
    \/ nextId < MaxSignals /\ manualGenerateSignal

Spec ==
    Init /\ [][Next]_vars

TypeOK ==
    /\ variant \in {"basic", "advanced"}
    /\ selectedSymbol \in Symbols
    /\ isActive \in BOOLEAN
    /\ runCountRef \in 0..MAX_RUNS_PER_CYCLE
    /\ Len(signals) <= MAX_SIGNAL_HISTORY

----------------------------------------------------------------------------
(* Claims about the consensus cycle and the manual trigger, under Spec *)

EvaluatedBasic ==
    variant = "basic" /\ last.op = "run" /\ last.evaluated

Unanimous(results, d) ==
    \A i \in 1..Len(results) : results[i] = [digit |-> d, band |-> "none"]

TopVotes(results) ==
    DigitVotes(results, consensusDigit(results))

(* The condition under which the specification lets a digit signal fire. *)
DigitCondition ==
    /\ TopVotes(last.results) >= riskSettings.requiredRuns
    /\ digitPredictions[1].probability >= riskSettings.probabilityThreshold

(* The condition under which the specification lets a band signal fire. *)
BandCondition ==
    /\ ~DigitCondition
    /\ consensusBand(last.results) # "none"
    /\ BandVotes(last.results, consensusBand(last.results))
           >= riskSettings.requiredRuns
    /\ bandPrediction.confidence >= riskSettings.probabilityThreshold

(* C1: basic engine, trading active at every run of the cycle: a completed
   cycle whose 4 RunResults all name digit d, each run's top probability at or
   above the threshold (band "none") and requiredRuns <= 4, appends exactly one
   signal, of type exact_digit for digit d, at the 4th run; the runs 1 to 3 of
   a cycle append none. *)
C1_UnanimousCycleEmitsDigit ==
    /\ (EvaluatedBasic /\ last.cycleActive
            /\ riskSettings.requiredRuns <= MAX_RUNS_PER_CYCLE)
       => \A d \in 0..9 :
              Unanimous(last.results, d)
              => /\ last.created = 1
                 /\ signals # << >>
                 /\ signals[1].type = "exact_digit"
                 /\ signals[1].predicted_digit = d
    /\ (variant = "basic" /\ last.op = "run" /\ ~last.evaluated)
       => last.created = 0

(* C2: a run that takes place while isActive is false appends no signal, in
   either engine, and still publishes features and predictions. *)
C2_NoSignalWhileInactive ==
    (last.op = "run" /\ ~last.wasActive)
    => /\ last.created = 0
       /\ last.ran => /\ features # NoFeatures
                      /\ digitPredictions # << >>
                      /\ bandPrediction # NoBandPrediction

(* C3: basic engine, cycle evaluation with trading active: an exact_digit signal
   is appended iff the winning digit has at least requiredRuns votes and the
   evaluating run's top probability is at or above the threshold. *)
C3_DigitSignalIff ==
    (EvaluatedBasic /\ last.wasActive)
    => (last.emitted = "exact_digit" <=> DigitCondition)

(* C4: basic engine, cycle evaluation with trading active: an over_under signal
   is appended iff the digit condition fails, the winning band is not "none",
   it has at least requiredRuns votes and the evaluating run's band confidence
   is at or above the threshold; an evaluation appends at most one signal. *)
C4_BandSignalIff ==
    (EvaluatedBasic /\ last.wasActive)
    => /\ last.emitted = "over_under" <=> BandCondition
       /\ last.created <= 1

(* C5: advanced engine: a run appends a signal only when it evaluates a
   completed 4-run cycle whose winning outcome has at least requiredRuns
   votes. *)
C5_AdvancedSignalOnlyAtEvaluation ==
    (variant = "advanced" /\ last.op = "run" /\ last.created = 1)
    => /\ last.evaluated
       /\ Len(last.results) = MAX_RUNS_PER_CYCLE
       /\ \/ TopVotes(last.results) >= riskSettings.requiredRuns
          \/ BandVotes(last.results, consensusBand(last.results))
                 >= riskSettings.requiredRuns

(* C6: after every cycle evaluation of the basic engine the run counter is 0
   and the accumulator is empty, whatever was emitted and whether or not
   trading is active. *)
C6_EvaluationResets ==
    EvaluatedBasic => runCountRef = 0 /\ runResultsRef = << >>

(* An evaluation that appended no signal has just taken place. *)
C6_Witness ==
    EvaluatedBasic /\ last.emitted = "none" /\ Len(last.results) = MAX_RUNS_PER_CYCLE

(* The log after one signal of the given type was put in front of it. *)
AppendedOne(type) ==
    /\ Len(signals') = Min(Len(signals) + 1, MAX_SIGNAL_HISTORY)
    /\ signals'[1].type = type
    /\ signals'[1].runs = 1
    /\ \A i \in 2..Len(signals') : signals'[i] = signals[i - 1]

(* C10: one call of the manual trigger appends at most one signal, decided by
   the published predictions alone: exact_digit for the top digit when its
   probability is at or above the threshold, else over_under for the top band
   when the band confidence is at or above the threshold, else nothing; and
   nothing when no predictions are published. *)
C10_ManualTrigger ==
    [][ last'.op = "manual" =>
          IF digitPredictions = << >> THEN signals' = signals
          ELSE IF digitPredictions[1].probability
                      >= riskSettings.probabilityThreshold
               THEN /\ AppendedOne("exact_digit")
                    /\ signals'[1].predicted_digit = digitPredictions[1].digit
                    /\ signals'[1].confidence = digitPredictions[1].confidence
          ELSE IF bandPrediction.confidence >= riskSettings.probabilityThreshold
               THEN /\ AppendedOne("over_under")
                    /\ signals'[1].predicted_band = TopBand(bandPrediction)
                    /\ signals'[1].confidence = bandPrediction.confidence
          ELSE signals' = signals ]_vars

(* The manual trigger has appended a band signal in the middle of a cycle. *)
C10_Witness ==
    /\ last.op = "manual"
    /\ last.created = 1
    /\ signals[1].type = "over_under"
    /\ runCountRef \in 1..(MAX_RUNS_PER_CYCLE - 1)

(* An interval is armed only with a callback that holds a long enough buffer. *)
ArmedWithEnoughTicks ==
    \A callback \in timers : Len(callback.ticks) >= MinTicks

----------------------------------------------------------------------------
(* The tick buffer alone: ticks of every symbol arrive, the symbol is changed *)

NextFeed ==
    \/ \E s \in Symbols :
           received[s] < MAX_TICKS + FeedExtra /\ addTick(s)
    \/ \E s \in Symbols : setSelectedSymbol(s)

SpecFeed ==
    Init /\ [][NextFeed]_vars

(* C8: the buffer of every symbol holds at most 100 ticks, in arrival order,
   and they are the most recent ticks received for that symbol. *)
C8_TickBufferKeepsLatest ==
    \A s \in Symbols :
        /\ Len(ticks[s]) = Min(received[s], MAX_TICKS)
        /\ \A i \in 1..Len(ticks[s]) :
               ticks[s][i] =
                   [symbol |-> s, seq |-> received[s] - Len(ticks[s]) + i]

(* A 101st tick has arrived for a symbol: the first one is gone. *)
C8_Witness ==
    \E s \in Symbols :
        /\ received[s] = MAX_TICKS + 1
        /\ Len(ticks[s]) = MAX_TICKS
        /\ ticks[s][1].seq = 2

----------------------------------------------------------------------------
(* The Signal Log filled past its capacity: the feed stops at the minimum
   buffer length, and every run and every manual call meets the same
   predictions, which clear the threshold *)

LogOutcomes ==
    {[top    |-> [digit |-> 3, probability |-> 80, confidence |-> 80],
      band   |-> [over2 |-> 80, under7 |-> 40, confidence |-> 80],
      tenSec |-> [digit |-> 3, probability |-> 80, confidence |-> 80]]}

NextLog ==
    \/ \E s \in {selectedSymbol} :
           received[s] < MinTicks /\ addTick(s)
    \/ handleStartStop
    \/ \E callback \in timers, out \in LogOutcomes :
           nextId < MAX_SIGNAL_HISTORY + LogExtra /\ performAnalysis(callback, out)
    \/ \E callback \in timers, out \in LogOutcomes :
           /\ nextId < MAX_SIGNAL_HISTORY + LogExtra
           /\ performAdvancedAnalysis(callback, out)
    \/ nextId < MAX_SIGNAL_HISTORY + LogExtra /\ manualGenerateSignal

SpecLog ==
    Init /\ [][NextLog]_vars

(* C7: the Signal Log holds at most 50 signals, the most recent first, and they
   are the most recent signals created: a signal appended to a full log pushes
   out the oldest one only. *)
C7_SignalLogKeepsLatest ==
    /\ Len(signals) = Min(nextId, MAX_SIGNAL_HISTORY)
    /\ \A i \in 1..Len(signals) : signals[i].id = nextId - i + 1

(* A 51st signal has been created: the first one is gone. *)
C7_Witness ==
    /\ nextId = MAX_SIGNAL_HISTORY + 1
    /\ Len(signals) = MAX_SIGNAL_HISTORY
    /\ signals[1].id = MAX_SIGNAL_HISTORY + 1
    /\ signals[MAX_SIGNAL_HISTORY].id = 2

----------------------------------------------------------------------------
(* The analysis callback applied directly.  An armed interval always holds a
   long enough buffer (ArmedWithEnoughTicks), so the early return of a run is
   exercised by calling the callback of the latest render whatever the buffer
   it captured; the symbol is changed too, which leaves the engine with the
   still empty buffer of the other symbol in the middle of a cycle (ticks
   arrive for the default symbol only). *)

NextDirect ==
    \/ \E s \in {DefaultSymbol} :
           received[s] < MinTicks + ExtraTicks /\ addTick(s)
    \/ handleStartStop
    \/ \E s \in Symbols : setSelectedSymbol(s)
    \/ \E out \in BasicOutcomes :
           nextId < MaxSignals /\ performAnalysis(analysisCallback, out)
    \/ \E out \in AdvancedOutcomes :
           nextId < MaxSignals /\ performAdvancedAnalysis(analysisCallback, out)

SpecDirect ==
    Init /\ [][NextDirect]_vars

(* C9: a run that reads a buffer below the minimum length (10 basic, 20
   advanced) changes nothing: run counter, accumulator, published features and
   predictions and Signal Log stay as they were. *)
C9_ShortBufferRunChangesNothing ==
    [][ (last'.op = "run" /\ last'.len < MinTicks) =>
          UNCHANGED << runCountRef, runResultsRef, features, digitPredictions,
                       bandPrediction, tenSecondPrediction, signals >> ]_vars

(* A run has read a buffer below the minimum in the middle of a cycle, after
   earlier runs had published predictions. *)
C9_Witness ==
    /\ last.op = "run"
    /\ last.len < MinTicks
    /\ digitPredictions # << >>
    /\ (variant = "basic" => runCountRef > 0)

----------------------------------------------------------------------------
(* Exceptions inside an analysis run.  The whole body of performAnalysis and
   of performAdvancedAnalysis is a try block; an exception raised at one of the
   points below leaves the state updates made before it and enters the catch
   block. *)

MaxFaults ==
    1

FaultPoints ==
    {"extract", "predict", "evaluate"}

(* Mutant of Catch: the handler rethrows instead of notifying. *)
Catch_Rethrow(threw) ==
    [toast |-> FALSE, escaped |-> threw]

(* catch (error): console.error, setIsAnalyzing(false), toast "Analysis Error";
   nothing is rethrown. *)
Catch(threw) ==
    [toast |-> threw, escaped |-> FALSE]

(* The history of a run that raised an exception. *)
FaultStep(callback, ran) ==
    [Step("run") EXCEPT
         !.len = Len(callback.ticks), !.ran = ran, !.threw = TRUE,
         !.toast = Catch(TRUE).toast, !.escaped = Catch(TRUE).escaped,
         !.faults = last.faults + 1,
         !.cycleActive = isActive /\ (runCountRef = 0 \/ last.cycleActive)]

(* performAnalysis with an exception raised in extractFeatures ("extract"), in
   predictDigit / predictBand after setFeatures ("predict"), or in the
   consensus evaluation after the run was counted ("evaluate"). *)
performAnalysisThrows(callback, out, at) ==
    LET currentFeatures == extractFeatures(callback.ticks)
        rs      == callback.riskSettings
        count   == runCountRef + 1
        results == Append(runResultsRef,
                          RunResult(out.top, out.band, rs.probabilityThreshold))
    IN  /\ variant = "basic"
        /\ Len(callback.ticks) >= MinTicks
        /\ at = "evaluate" => count >= MAX_RUNS_PER_CYCLE
        /\ last' = [FaultStep(callback, at # "extract") EXCEPT
                        !.cycleSymbols =
                            IF at = "evaluate"
                            THEN (IF runResultsRef = << >> THEN {} ELSE @)
                                     \cup {callback.symbol}
                            ELSE @]
        /\ features' = IF at = "extract" THEN features ELSE currentFeatures
        /\ digitPredictions' =
               IF at = "evaluate" THEN << out.top >> ELSE digitPredictions
        /\ bandPrediction' = IF at = "evaluate" THEN out.band ELSE bandPrediction
        /\ runCountRef' = IF at = "evaluate" THEN count ELSE runCountRef
        /\ runResultsRef' = IF at = "evaluate" THEN results ELSE runResultsRef
        /\ IF at = "extract"
           THEN UNCHANGED << analysisCallback, analysisIntervalRef, armedAt, timers >>
           ELSE Render(selectedSymbol, ticks, riskSettings, isActive,
                       currentFeatures, FALSE, TRUE)
        /\ UNCHANGED << calc, exported, ws, now, variant, selectedSymbol, isActive, riskSettings, ticks,
                        received, signals, tenSecondPrediction, nextId >>

(* performAdvancedAnalysis with an exception raised in extractAdvancedFeatures
   ("extract"), in the predictors after setFeatures ("predict"), or in the
   signal decision after the predictions were stored ("evaluate"). *)
performAdvancedAnalysisThrows(callback, out, at) ==
    LET currentFeatures == extractAdvancedFeatures(callback.ticks)
        tenSecPred == generateTenSecondPrediction(callback, out.tenSec)
    IN  /\ variant = "advanced"
        /\ Len(callback.ticks) >= MinTicks
        /\ last' = FaultStep(callback, at # "extract")
        /\ features' = IF at = "extract" THEN features ELSE currentFeatures
        /\ digitPredictions' =
               IF at = "evaluate" THEN << out.top >> ELSE digitPredictions
        /\ bandPrediction' = IF at = "evaluate" THEN out.band ELSE bandPrediction
        /\ tenSecondPrediction' =
               IF at = "evaluate" THEN tenSecPred ELSE tenSecondPrediction
        /\ IF at = "extract"
           THEN UNCHANGED << analysisCallback, analysisIntervalRef, armedAt, timers >>
           ELSE Render(selectedSymbol, ticks, riskSettings, isActive,
                       currentFeatures, FALSE, TRUE)
        /\ UNCHANGED << calc, exported, ws, now, variant, selectedSymbol, isActive, riskSettings, ticks,
                        received, signals, runCountRef, runResultsRef, nextId >>

NextFault ==
    \/ \E s \in {selectedSymbol} :
           received[s] < MinTicks + ExtraTicks /\ addTick(s)
    \/ handleStartStop
    \/ \E callback \in timers, out \in BasicOutcomes :
           nextId < MaxSignals /\ performAnalysis(callback, out)
    \/ \E callback \in timers, out \in AdvancedOutcomes :
           nextId < MaxSignals /\ performAdvancedAnalysis(callback, out)
    \/ \E callback \in timers, out \in BasicOutcomes, at \in FaultPoints :
           last.faults < MaxFaults /\ performAnalysisThrows(callback, out, at)
    \/ \E callback \in timers, out \in AdvancedOutcomes, at \in FaultPoints :
           last.faults < MaxFaults
               /\ performAdvancedAnalysisThrows(callback, out, at)

SpecFault ==
    Init /\ [][NextFault]_vars

(* C11: an exception raised inside an analysis run is caught in that run: the
   error toast is shown, the exception does not leave the timer callback, and
   an analysis interval is still armed afterwards, so later runs execute. *)
C11_ExceptionCaughtInRun ==
    [][ last'.threw =>
          /\ last'.op = "run"
          /\ last'.toast
          /\ ~last'.escaped
          /\ timers' # {}
          /\ signals' = signals ]_vars

(* A run executes normally after an earlier run raised an exception in the
   consensus evaluation. *)
C11_Witness ==
    /\ last.op = "run"
    /\ last.ran
    /\ ~last.threw
    /\ last.faults > 0
    /\ runCountRef > MAX_RUNS_PER_CYCLE \/ last.evaluated

----------------------------------------------------------------------------
(* The numbers of the extractor and of the basic predictors.  A price is a
   whole number of tenths (lastDigit = floor(quote * 10) % 10 is then
   price % 10); probabilities, confidences and ratios are fixed-point numbers
   with four decimals (ONE is 1.0).  A JavaScript NaN is the value NaN, and
   every operator below propagates it as IEEE arithmetic, Math.min and
   Math.max do. *)

ONE ==
    10000

NaN ==
    -1000000000

Abs(a) ==
    IF a < 0 THEN -a ELSE a

Sign(a) ==
    IF a > 0 THEN 1 ELSE IF a < 0 THEN -1 ELSE 0

(* Division rounding towards zero, of either sign. *)
Div(a, b) ==
    Sign(a) * Sign(b) * (Abs(a) \div Abs(b))

Plus(a, b) ==
    IF a = NaN \/ b = NaN THEN NaN ELSE a + b

Minus(a, b) ==
    IF a = NaN \/ b = NaN THEN NaN ELSE a - b

(* x * k for a whole number k *)
Scale(x, k) ==
    IF x = NaN THEN NaN ELSE x * k

(* Math.abs *)
MathAbs(x) ==
    IF x = NaN THEN NaN ELSE Abs(x)

(* a * b of two fixed-point numbers *)
Times(a, b) ==
    IF a = NaN \/ b = NaN THEN NaN ELSE Div(a * b, ONE)

(* Math.min(Math.max(x, lo), hi): NaN stays NaN *)
Clamp(x, lo, hi) ==
    IF x = NaN THEN NaN ELSE Min(Max(x, lo), hi)

(* Math.min(x, hi) *)
AtMost(x, hi) ==
    IF x = NaN THEN NaN ELSE Min(x, hi)

(* x > y, which is false when an operand is NaN *)
Greater(x, y) ==
    x # NaN /\ y # NaN /\ x > y

RECURSIVE SqrtSearch(_, _, _)
SqrtSearch(x, lo, hi) ==
    IF lo >= hi THEN lo
    ELSE LET mid == (lo + hi + 1) \div 2
         IN  IF mid * mid <= x THEN SqrtSearch(x, mid, hi)
             ELSE SqrtSearch(x, lo, mid - 1)

(* Math.sqrt, rounded down *)
Sqrt(x) ==
    SqrtSearch(x, 0, Min(x, 46340))

(* Math.tanh of a fixed-point number: linear between the values of tanh at
   0, 0.5, 1, 1.5, 2, 3 and 4. *)
Tanh(x) ==
    LET a == Abs(x)
        t == IF a <= 5000 THEN Div(a * 4621, 5000)
             ELSE IF a <= 10000 THEN 4621 + Div((a - 5000) * 2995, 5000)
             ELSE IF a <= 15000 THEN 7616 + Div((a - 10000) * 1435, 5000)
             ELSE IF a <= 20000 THEN 9051 + Div((a - 15000) * 589, 5000)
             ELSE IF a <= 30000 THEN 9640 + Div((a - 20000) * 311, 10000)
             ELSE IF a <= 40000 THEN 9951 + Div((a - 30000) * 42, 10000)
             ELSE ONE
    IN  IF x = NaN THEN NaN ELSE Sign(x) * t

RECURSIVE SumOver(_, _)
(* prices.reduce((sum, p) => sum + f(p), 0), for f given as a sequence *)
SumOver(seq, n) ==
    IF n = 0 THEN 0 ELSE SumOver(seq, n - 1) + seq[n]

Digits ==
    0..9

(* usePredictionEngine.extractFeatures on a window of prices.  varN2 is
   n * n * variance, stdN is n * std (two decimals kept), so std > 0 is
   varN2 > 0 and mean = 0 is sum = 0. *)
Features(prices) ==
    LET n      == Len(prices)
        sum    == SumOver(prices, n)
        sumSq  == SumOver([i \in 1..n |-> prices[i] * prices[i]], n)
        varN2  == n * sumSq - sum * sum
        stdN   == Sqrt(varN2 * 10000)
        deltas == [i \in 1..(n - 1) |-> prices[i + 1] - prices[i]]
        lastDelta == deltas[n - 1]
    IN  [n |-> n, sum |-> sum, varN2 |-> varN2, stdN |-> stdN,
         trend |-> deltas[n - 1] + deltas[n - 2] + deltas[n - 3],
         signChanges |->
             Cardinality({i \in 2..(n - 1) :
                              Sign(deltas[i]) # Sign(deltas[i - 1])}),
         digitHistogram |->
             [d \in Digits |->
                  Div(Cardinality({i \in 1..n : prices[i] % 10 = d}) * ONE, n)],
         spikeIndicator |-> n * n * lastDelta * lastDelta > 4 * varN2,
         volatility |->
             IF sum = 0 THEN NaN ELSE Div(stdN * 100, sum)]

(* The statistics of the window are degenerate: mean 0 or std 0. *)
Degenerate(f) ==
    f.sum = 0 \/ f.varN2 = 0

(* features.digitHistogram[digit] || 0.1 *)
BaseProb(f, digit) ==
    IF f.digitHistogram[digit] = 0 THEN 1000 ELSE f.digitHistogram[digit]

(* recentTrend / features.std: 0 / 0 is NaN (a window with std 0 has no
   price change) *)
TrendRatio(f) ==
    IF f.varN2 = 0 THEN NaN ELSE Div(f.trend * f.n * 100 * ONE, f.stdN)

(* predictDigit, one digit, up to "Ensure probability is within bounds": the
   blend of the frequency, trend, volatility, mean-reversion (always 0:
   currentPrice is features.mean) and spike terms, clamped to [0.01, 0.9].
   rnd is the value of Math.random(). *)
ClampedProbability(f, digit, rnd) ==
    LET baseProb == BaseProb(f, digit)
        trendAdjustment == Times(Tanh(TrendRatio(f)), 1000)
        volatilityFactor == AtMost(Scale(f.volatility, 10), ONE)
        volatilityAdjustment ==
            Times(Times(volatilityFactor, rnd - 5000), 1500)
        spikeAdjustment ==
            IF f.spikeIndicator
            THEN (IF digit = 0 \/ digit = 9 THEN 2000 ELSE -1000)
            ELSE 0
        probability ==
            Plus(Plus(Plus(Plus(Times(baseProb, 4000),
                                Times(Plus(baseProb, trendAdjustment), 3000)),
                           Times(Plus(baseProb, volatilityAdjustment), 2000)),
                      Times(baseProb, 1000)),
                 spikeAdjustment)
    IN  Clamp(probability, 100, 9000)

(* "Add model uncertainty": probability *= 1 - (0.1 + Math.random() * 0.2).
   This is the value that the normalization divides by the total. *)
Uncertain(probability, rnd) ==
    Times(probability, ONE - (1000 + Times(rnd, 2000)))

(* predictDigit's confidence (the same for the 10 digits) *)
DigitConfidence(f) ==
    AtMost(Plus(Plus(IF f.varN2 > 0
                     THEN Minus(ONE, Scale(f.volatility, 20))
                     ELSE 5000,
                     IF f.signChanges < 5 THEN 2000 ELSE 0),
                IF f.spikeIndicator THEN 1000 ELSE 0),
           ONE)

(* predictDigit: the values entering the normalization, their total, the
   normalized probabilities and the confidence.  vol and unc are the two
   Math.random() values of each digit. *)
predictDigit(f, vol, unc) ==
    LET raw == [d \in Digits |->
                   Uncertain(ClampedProbability(f, d, vol[d]), unc[d])]
        total == IF \E d \in Digits : raw[d] = NaN THEN NaN
                 ELSE SumOver([i \in 1..10 |-> raw[i - 1]], 10)
    IN  [raw |-> raw, total |-> total,
         probability |->
             [d \in Digits |->
                  IF total = NaN THEN NaN
                  ELSE IF total = 0 THEN NaN
                  ELSE Div(raw[d] * ONE, total)],
         confidence |-> DigitConfidence(f)]

(* The mean of BaseProb over a set of digits *)
BandBaseProb(f, digits) ==
    LET lo == CHOOSE d \in digits : \A e \in digits : d <= e
    IN  Div(SumOver([i \in 1..7 |-> BaseProb(f, lo + i - 1)], 7), 7)

(* predictBand *)
predictBand(f) ==
    LET trendStrong == f.varN2 > 0
                           /\ 4 * f.trend * f.trend * f.n * f.n > f.varN2
        volatilityBoost ==
            Times(AtMost(Scale(f.volatility, 20), ONE), 1500)
        spikeBoost == IF f.spikeIndicator THEN 2000 ELSE 0
        up   == f.trend > 0 /\ trendStrong
        down == f.trend < 0 /\ trendStrong
        over2Prob ==
            Clamp(Plus(Plus(BandBaseProb(f, 3..9)
                                + (IF up THEN 1000 ELSE IF down THEN -500 ELSE 0),
                            volatilityBoost), spikeBoost),
                  1000, 9000)
        under7Prob ==
            Clamp(Plus(Plus(BandBaseProb(f, 0..6)
                                + (IF up THEN -500 ELSE IF down THEN 1000 ELSE 0),
                            volatilityBoost), spikeBoost),
                  1000, 9000)
    IN  [over2 |-> over2Prob, under7 |-> under7Prob,
         confidence |->
             AtMost(5000 + (IF f.signChanges < 3 THEN 2000 ELSE 0)
                         + (IF f.spikeIndicator THEN 1000 ELSE 0)
                         + (IF Greater(MathAbs(Minus(over2Prob, under7Prob)), 1000)
                            THEN 2000 ELSE 0),
                    ONE)]

(* Mutant of TopDigit: the sort is ascending. *)
TopDigit_Ascending(probability) ==
    IF \E d \in Digits : probability[d] = NaN THEN 0
    ELSE CHOOSE d \in Digits :
             /\ \A e \in Digits : probability[e] >= probability[d]
             /\ \A e \in Digits : probability[e] = probability[d] => d <= e

(* digitPreds.sort((a, b) => b.probability - a.probability)[0]: the first
   digit with the largest probability; a comparator that returns NaN leaves
   the order, so digit 0 stays in front. *)
TopDigit(probability) ==
    IF \E d \in Digits : probability[d] = NaN THEN 0
    ELSE CHOOSE d \in Digits :
             /\ \A e \in Digits : probability[e] <= probability[d]
             /\ \A e \in Digits : probability[e] = probability[d] => d <= e

(* Inputs of one evaluation: a window of the minimum length whose first ticks
   have one price and whose last WindowTail ticks are free, and the values of
   Math.random() for the 10 digits. *)
WindowTail ==
    3

PriceChoices ==
    {0, 10, 11, 13}

Windows ==
    {w \in [1..MIN_TICKS_BASIC -> PriceChoices] :
         \A i \in 1..(MIN_TICKS_BASIC - WindowTail) : w[i] = w[1]}

RandomChoices ==
    {[d \in Digits |-> 0], [d \in Digits |-> 9999],
     [d \in Digits |-> IF d % 2 = 0 THEN 0 ELSE 9999]}

InitPredict ==
    /\ variant = "basic"
    /\ calc \in [phase : {"input"}, prices : Windows,
                 vol : RandomChoices, unc : RandomChoices]
    /\ InitEngine

(* performAnalysis from extractFeatures to runResultsRef.current.push, on the
   window and the random values of calc: the features, the predictions that
   are published and the RunResult that is appended. *)
runPredictors ==
    LET f == Features(calc.prices)
        digitPreds == predictDigit(f, calc.vol, calc.unc)
        bandPred   == predictBand(f)
        topDigit   == TopDigit(digitPreds.probability)
        threshold  == riskSettings.probabilityThreshold * 100
        topBand    == IF Greater(bandPred.over2, bandPred.under7)
                      THEN "over2" ELSE "under7"
    IN  /\ calc.phase = "input"
        /\ calc' = [phase |-> "done", prices |-> calc.prices,
                    vol |-> calc.vol, unc |-> calc.unc,
                    features |-> f, digitPreds |-> digitPreds,
                    bandPred |-> bandPred,
                    pushed |-> << [digit |-> topDigit,
                                   band |->
                                       IF digitPreds.probability[topDigit] # NaN
                                          /\ digitPreds.probability[topDigit]
                                                 >= threshold
                                       THEN "none" ELSE topBand] >>]
        /\ UNCHANGED << exported, ws, now, variant, selectedSymbol, isActive, riskSettings, ticks,
                        received, digitPredictions, bandPrediction, signals,
                        features, tenSecondPrediction, runCountRef,
                        runResultsRef, analysisCallback, analysisIntervalRef, armedAt,
                        timers, nextId, last >>

(* The threshold slider of RiskControls at its minimum, 0.5 *)
PredictRiskChoices ==
    [probabilityThreshold : {50}, requiredRuns : {3}, stake : {1}]

NextPredict ==
    \/ runPredictors
    \/ \E rs \in PredictRiskChoices :
           /\ calc.phase = "input"
           /\ riskSettings = DefaultRiskSettings
           /\ setRiskSettings(rs)

SpecPredict ==
    InitPredict /\ [][NextPredict]_vars

Evaluated ==
    calc.phase = "done"

PublishesNaN ==
    \/ \E d \in Digits : calc.digitPreds.probability[d] = NaN
    \/ calc.bandPred.over2 = NaN
    \/ calc.bandPred.under7 = NaN

(* C12: a run on a window whose statistics are degenerate (mean 0 or std 0)
   publishes no undefined digit or band probability and appends no
   RunResult. *)
C12_DegenerateSnapshotSkipped ==
    (Evaluated /\ Degenerate(calc.features))
    => ~PublishesNaN /\ calc.pushed = << >>

(* C15: the 10 digit probabilities of every snapshot sum to 1, up to the
   rounding of the ten divisions, for every value of the random jitter. *)
C15_ProbabilitiesSumToOne ==
    Evaluated
    => /\ \A d \in Digits : calc.digitPreds.probability[d] # NaN
       /\ Abs(SumOver([i \in 1..10 |-> calc.digitPreds.probability[i - 1]], 10)
                  - ONE) <= Cardinality(Digits)

(* C16: for a snapshot that is not degenerate, every digit's value that is
   divided by the total lies in [0.01, 0.9], and both band probabilities lie
   in [0.1, 0.9]. *)
C16_ProbabilitiesWithinBounds ==
    (Evaluated /\ ~Degenerate(calc.features))
    => /\ \A d \in Digits :
              calc.digitPreds.raw[d] >= 100 /\ calc.digitPreds.raw[d] <= 9000
       /\ calc.bandPred.over2 >= 1000 /\ calc.bandPred.over2 <= 9000
       /\ calc.bandPred.under7 >= 1000 /\ calc.bandPred.under7 <= 9000

(* C17: for a snapshot that is not degenerate, the digit confidence and the
   band confidence lie in [0, 1], whatever the volatility. *)
C17_ConfidenceWithinUnitInterval ==
    (Evaluated /\ ~Degenerate(calc.features))
    => /\ calc.digitPreds.confidence >= 0
       /\ calc.digitPreds.confidence <= ONE
       /\ calc.bandPred.confidence >= 0
       /\ calc.bandPred.confidence <= ONE

----------------------------------------------------------------------------
(* The feature extractor as a function of the tick sequence it is given *)

ExtractExtra ==
    2

(* extractFeatures(tickData) / extractAdvancedFeatures(tickData), called with
   the buffer of the selected symbol *)
extract ==
    LET tickData == TicksProp(ticks, selectedSymbol)
    IN  /\ calc' = [phase |-> "extracted", tickData |-> tickData,
                    result |-> IF variant = "basic"
                               THEN extractFeatures(tickData)
                               ELSE extractAdvancedFeatures(tickData)]
        /\ UNCHANGED << exported, ws, now, variant, selectedSymbol, isActive, riskSettings, ticks,
                        received, digitPredictions, bandPrediction, signals,
                        features, tenSecondPrediction, runCountRef,
                        runResultsRef, analysisCallback, analysisIntervalRef, armedAt,
                        timers, nextId, last >>

NextExtract ==
    \/ \E s \in {selectedSymbol} :
           received[s] < WINDOW_ADVANCED + ExtractExtra /\ addTick(s)
    \/ extract

SpecExtract ==
    Init /\ [][NextExtract]_vars

(* C13: the extractor returns null exactly when it is given fewer ticks than
   the minimum (10 basic, 20 advanced); for a longer sequence it returns the
   snapshot of the last 30 (basic) or 50 (advanced) ticks, or of all of them
   when there are fewer. *)
C13_ExtractorNullIffShort ==
    calc.phase = "extracted"
    => LET n == Len(calc.tickData)
           window == IF variant = "basic" THEN WINDOW_BASIC ELSE WINDOW_ADVANCED
       IN  /\ calc.result = NoFeatures <=> n < MinTicks
           /\ n >= MinTicks
              => calc.result =
                     [symbol |-> selectedSymbol,
                      from |-> calc.tickData[n].seq - Min(n, window) + 1,
                      upto |-> calc.tickData[n].seq]

(* The extractor was given more ticks than its window. *)
C13_Witness ==
    /\ calc.phase = "extracted"
    /\ variant = "advanced"
    /\ Len(calc.tickData) > WINDOW_ADVANCED
    /\ calc.result # NoFeatures

----------------------------------------------------------------------------
(* XML export of a signal of the log *)

ExportSignals ==
    1

(* symbol.includes('1S') *)
Includes1S(symbol) ==
    symbol \in {"R_10_1S"}

(* The fields of xmlTemplate; symbol is the symbol prop of the hook. *)
XmlTemplate(signal, symbol, stake) ==
    [SYMBOL |-> signal.symbol,
     TRADETYPE |-> IF signal.type = "exact_digit" THEN "digit_match"
                   ELSE IF signal.predicted_band = "over2" THEN "digit_over"
                   ELSE "digit_under",
     TYPE |-> IF signal.type = "exact_digit" THEN signal.predicted_digit
              ELSE IF signal.predicted_band = "over2" THEN 2 ELSE 7,
     AMOUNT |-> stake,
     DURATION |-> IF Includes1S(symbol) THEN 5 ELSE 10,
     DURATIONTYPE |-> "t", CURRENCY |-> "USD"]

(* signals.find(s => s.id === signalId): its index, 0 when there is none *)
FindSignal(signalId) ==
    IF \E i \in 1..Len(signals) : signals[i].id = signalId
    THEN CHOOSE i \in 1..Len(signals) :
             /\ signals[i].id = signalId
             /\ \A j \in 1..(i - 1) : signals[j].id # signalId
    ELSE 0

(* exportXML of both engines (its dependencies make it the callback of the
   latest render) *)
exportXML(signalId) ==
    LET i == FindSignal(signalId)
    IN  /\ exported' = IF i = 0 THEN exported
                       ELSE XmlTemplate(signals[i], selectedSymbol,
                                        riskSettings.stake)
        /\ last' = [Step("export") EXCEPT !.signalId = signalId]
        /\ UNCHANGED << calc, ws, now, variant, selectedSymbol, isActive,
                        riskSettings, ticks, received, digitPredictions,
                        bandPrediction, signals, features, tenSecondPrediction,
                        runCountRef, runResultsRef, analysisCallback,
                        analysisIntervalRef, armedAt, timers, nextId >>

(* The predictions of a run: either the digit or the band clears the
   threshold. *)
ExportOutcomes ==
    {[top    |-> [digit |-> 3, probability |-> 80, confidence |-> 80],
      band   |-> [over2 |-> 80, under7 |-> 40, confidence |-> 80],
      tenSec |-> [digit |-> 3, probability |-> 80, confidence |-> 80]],
     [top    |-> [digit |-> 5, probability |-> 50, confidence |-> 80],
      band   |-> [over2 |-> 40, under7 |-> 80, confidence |-> 80],
      tenSec |-> [digit |-> 5, probability |-> 50, confidence |-> 80]]}

NextExport ==
    \/ \E s \in {selectedSymbol} :
           received[s] < MinTicks /\ addTick(s)
    \/ handleStartStop
    \/ \E s \in Symbols : setSelectedSymbol(s)
    \/ \E callback \in timers, out \in ExportOutcomes :
           nextId < ExportSignals /\ performAnalysis(callback, out)
    \/ \E callback \in timers, out \in ExportOutcomes :
           nextId < ExportSignals /\ performAdvancedAnalysis(callback, out)
    \/ nextId < ExportSignals /\ manualGenerateSignal
    \/ \E signalId \in 1..(ExportSignals + 1) : exportXML(signalId)

SpecExport ==
    Init /\ [][NextExport]_vars

(* C14: the exported document is a function of the exported signal:
   TRADETYPE / TYPE are digit_match and the digit, digit_over and 2, or
   digit_under and 7; SYMBOL is the signal's symbol; DURATION is 5 when the
   signal's symbol is a 1-second variant and 10 otherwise, whatever symbol is
   selected at the time; an id that is not in the log exports nothing. *)
C14_ExportIsFunctionOfSignal ==
    [][ last'.op = "export" =>
          LET i == FindSignal(last'.signalId)
          IN  IF i = 0 THEN exported' = exported
              ELSE /\ exported'.SYMBOL = signals[i].symbol
                   /\ signals[i].type = "exact_digit"
                      => /\ exported'.TRADETYPE = "digit_match"
                         /\ exported'.TYPE = signals[i].predicted_digit
                   /\ (signals[i].type = "over_under"
                           /\ signals[i].predicted_band = "over2")
                      => /\ exported'.TRADETYPE = "digit_over"
                         /\ exported'.TYPE = 2
                   /\ (signals[i].type = "over_under"
                           /\ signals[i].predicted_band = "under7")
                      => /\ exported'.TRADETYPE = "digit_under"
                         /\ exported'.TYPE = 7
                   /\ exported'.DURATION =
                          IF signals[i].symbol \in {"R_10_1S"} THEN 5 ELSE 10
    ]_vars

----------------------------------------------------------------------------
(* Teardown of a symbol's subscription, under SpecFeed *)

(* C18: when the dashboard leaves a symbol (its subscription is torn down),
   no tick of that symbol is retained and no analysis interval armed for it is
   left running. *)
C18_TeardownReleasesBuffer ==
    [][ selectedSymbol' # selectedSymbol =>
          /\ selectedSymbol \notin ws'.subscriptions
          /\ ticks'[selectedSymbol] = << >>
          /\ \A callback \in timers' : callback.symbol # selectedSymbol ]_vars

----------------------------------------------------------------------------
(* The socket of useDerivWebSocket and its reconnect timer.  ws.delays is the
   history of the delays scheduled since the socket was last open. *)

WS_RECONNECT_DELAY ==
    1000

WS_MAX_RECONNECT_DELAY ==
    30000

NORMAL_CLOSURE ==
    1000

MaxAttempts ==
    3

(* The close codes tried: normal closure, abnormal closure *)
CloseCodes ==
    {NORMAL_CLOSURE, 1006}

(* 1000 * Math.pow(2, Math.random()) for Math.random() = 0, 0.5 and nearly 1 *)
BackoffChoices ==
    {WS_RECONNECT_DELAY, 1414, 2 * WS_RECONNECT_DELAY - 1}

(* onclose: Math.min(1000 * Math.pow(2, Math.random()), 30000) *)
ReconnectDelay(pow) ==
    Min(pow, WS_MAX_RECONNECT_DELAY)

SocketFrame ==
    UNCHANGED << calc, exported, now, variant, selectedSymbol, isActive,
                 riskSettings, ticks, received, digitPredictions,
                 bandPrediction, signals, features, tenSecondPrediction,
                 runCountRef, runResultsRef, analysisCallback,
                 analysisIntervalRef, armedAt, timers, nextId, last >>

(* wsRef.current.onopen: it sends authorize, and no subscribe request *)
onopen ==
    /\ ws.readyState = "CONNECTING"
    /\ ws' = [ws EXCEPT !.readyState = "OPEN", !.delays = << >>, !.sent = {}]
    /\ SocketFrame

(* wsRef.current.onclose: the connection attempt failed or the open socket
   was closed; a reconnect is scheduled unless the code is 1000. *)
onclose(code, pow) ==
    /\ ws.readyState \in {"CONNECTING", "OPEN"}
    /\ ws' = [ws EXCEPT
                  !.readyState = "CLOSED", !.code = code, !.sent = {},
                  !.reconnectTimeout =
                      IF code # NORMAL_CLOSURE THEN ReconnectDelay(pow) ELSE 0,
                  !.delays =
                      IF code # NORMAL_CLOSURE
                      THEN Append(@, ReconnectDelay(pow)) ELSE @]
    /\ SocketFrame

(* The reconnect timeout fires: connectWebSocket creates a new socket. *)
connectWebSocket ==
    /\ ws.readyState = "CLOSED"
    /\ ws.reconnectTimeout # 0
    /\ ws' = [ws EXCEPT !.readyState = "CONNECTING", !.reconnectTimeout = 0]
    /\ SocketFrame

NextSocket ==
    \/ onopen
    \/ \E code \in CloseCodes, pow \in BackoffChoices :
           Len(ws.delays) < MaxAttempts /\ onclose(code, pow)
    \/ connectWebSocket
    \/ \E s \in Symbols : setSelectedSymbol(s)

SpecSocket ==
    Init /\ [][NextSocket]_vars

(* C19: after a close with a code other than 1000 a reconnect is scheduled,
   after a close with code 1000 none is; over consecutive failed attempts each
   delay is at least double the previous one, up to the cap of 30000 ms. *)
C19_ReconnectBackoffGrows ==
    /\ ws.readyState = "CLOSED"
       => (ws.reconnectTimeout # 0 <=> ws.code # NORMAL_CLOSURE)
    /\ \A k \in 1..(Len(ws.delays) - 1) :
           ws.delays[k + 1] >= Min(2 * ws.delays[k], WS_MAX_RECONNECT_DELAY)

----------------------------------------------------------------------------
(* The signals of the log under every operation of the engines: analysis
   runs, manual trigger and export, with the log filled past its capacity *)

NextStatus ==
    \/ NextLog
    \/ \E signalId \in {1, nextId} : exportXML(signalId)

SpecStatus ==
    Init /\ [][NextStatus]_vars

(* C20: every signal of the log has status pending, and no step changes a
   field of a signal that is already in the log. *)
C20_SignalsStayPending ==
    [][ \A i \in 1..Len(signals') :
            /\ signals'[i].status = "pending"
            /\ \A j \in 1..Len(signals) :
                   signals[j].id = signals'[i].id => signals'[i] = signals[j]
    ]_vars

(* A signal of the log was exported and signals were appended after it. *)
C20_Witness ==
    /\ exported # NoDocument
    /\ Len(signals) >= 3
    /\ last.op \in {"run", "manual"}
    /\ last.created = 1

----------------------------------------------------------------------------
(* Time.  An interval armed at armedAt fires at armedAt + k * interval for
   k = 1, 2, ... as long as it is armed; it fires on time (a run takes well
   under one period), so time does not pass while it is due.  Ticks of the
   selected symbol arrive TickGaps apart. *)

ANALYSIS_INTERVAL_BASIC ==
    2500

ANALYSIS_INTERVAL_ADVANCED ==
    2000

TimeUnit ==
    500

TimerExtraTicks ==
    5

(* The gaps between two ticks of a symbol, in milliseconds *)
TickGaps ==
    {1000, 2000, 3000}

MaxGap ==
    CHOOSE g \in TickGaps : \A h \in TickGaps : h <= g

AnalysisInterval ==
    IF variant = "basic" THEN ANALYSIS_INTERVAL_BASIC
    ELSE ANALYSIS_INTERVAL_ADVANCED

(* The armed interval is due now and has not fired yet. *)
Due ==
    /\ timers # {}
    /\ now > armedAt
    /\ (now - armedAt) % AnalysisInterval = 0
    /\ last.firedAt # now

(* Time passes. *)
elapse ==
    /\ ~Due
    /\ now - last.tickAt < MaxGap
    /\ now' = now + TimeUnit
    /\ last' = Step("elapse")
    /\ UNCHANGED << calc, exported, ws, variant, selectedSymbol, isActive,
                    riskSettings, ticks, received, digitPredictions,
                    bandPrediction, signals, features, tenSecondPrediction,
                    runCountRef, runResultsRef, analysisCallback,
                    analysisIntervalRef, armedAt, timers, nextId >>

NextTimer ==
    \/ elapse
    \/ \E s \in {selectedSymbol} :
           /\ received[s] < MinTicks + TimerExtraTicks
           /\ (now - last.tickAt) \in TickGaps
           /\ addTick(s)
    \/ \E callback \in timers, out \in LogOutcomes :
           Due /\ performAnalysis(callback, out)
    \/ \E callback \in timers, out \in LogOutcomes :
           Due /\ performAdvancedAnalysis(callback, out)

SpecTimer ==
    Init /\ [][NextTimer]_vars

(* C21: once the buffer holds the minimum number of ticks and TimerExtraTicks
   more have arrived, whatever the gaps between them, an analysis run has
   executed, and the last one executed no more than two analysis intervals
   ago. *)
C21_RunsKeepExecuting ==
    received[selectedSymbol] >= MinTicks + TimerExtraTicks
    => /\ last.firedAt > 0
       /\ now - last.firedAt <= 2 * AnalysisInterval

----------------------------------------------------------------------------
(* Claims about the vote tally and the RunResults, under Spec *)

Votes(labels, x) ==
    Cardinality({i \in 1..Len(labels) : labels[i] = x})

FirstIndex(labels, x) ==
    CHOOSE i \in 1..Len(labels) :
        labels[i] = x /\ \A j \in 1..(i - 1) : labels[j] # x

(* The label with the most votes; among the most voted labels, the one met
   first in run order. *)
FirstEncounteredWinner(labels) ==
    LET voted == {labels[i] : i \in 1..Len(labels)}
    IN  CHOOSE x \in voted :
            \A y \in voted :
                \/ Votes(labels, x) > Votes(labels, y)
                \/ /\ Votes(labels, x) = Votes(labels, y)
                   /\ FirstIndex(labels, x) <= FirstIndex(labels, y)

DigitsOf(results) ==
    [i \in 1..Len(results) |-> results[i].digit]

BandsOf(results) ==
    [i \in 1..Len(results) |-> results[i].band]

(* C22: the digit of an exact_digit signal and the band of an over_under
   signal emitted by a cycle evaluation are the most voted digit and band of
   the cycle's RunResults, a tie being won by the one met first in run
   order. *)
C22_TieBrokenByRunOrder ==
    (EvaluatedBasic /\ last.created = 1)
    => /\ last.emitted = "exact_digit"
          => signals[1].predicted_digit
                 = FirstEncounteredWinner(DigitsOf(last.results))
       /\ last.emitted = "over_under"
          => signals[1].predicted_band
                 = FirstEncounteredWinner(BandsOf(last.results))

(* The band half of C22 alone. *)
BandTieBrokenByRunOrder ==
    (EvaluatedBasic /\ last.created = 1 /\ last.emitted = "over_under")
    => signals[1].predicted_band = FirstEncounteredWinner(BandsOf(last.results))

----------------------------------------------------------------------------
(* The RunResult of one run, under SpecPredict *)

(* C23: the RunResult appended by a run of the basic engine names a digit
   that no digit of the run exceeds in probability; its band is "none" iff
   that digit's probability is at or above probabilityThreshold, and
   otherwise over2 when over2 > under7 and under7 when not. *)
C23_RunResultBand ==
    Evaluated
    => LET probability == calc.digitPreds.probability
           threshold   == riskSettings.probabilityThreshold * 100
       IN  /\ Len(calc.pushed) = 1
           /\ \A e \in Digits :
                  ~Greater(probability[e], probability[calc.pushed[1].digit])
           /\ calc.pushed[1].band = "none"
              <=> /\ probability[calc.pushed[1].digit] # NaN
                  /\ probability[calc.pushed[1].digit] >= threshold
           /\ calc.pushed[1].band # "none"
              => calc.pushed[1].band =
                     IF Greater(calc.bandPred.over2, calc.bandPred.under7)
                     THEN "over2" ELSE "under7"

(* A run on a window that is not degenerate pushed the band "none". *)
C23_Witness ==
    /\ Evaluated
    /\ ~Degenerate(calc.features)
    /\ calc.pushed[1].band = "none"
    /\ calc.pushed[1].digit # 0

(* A run pushed over2, another under7. *)
C23_WitnessOver2 ==
    Evaluated /\ ~Degenerate(calc.features) /\ calc.pushed[1].band = "over2"

----------------------------------------------------------------------------
(* The accumulator of the basic engine, under SpecFault *)

(* C24: basic engine: after every run, whether it returned normally, early
   or through the catch block, the accumulator holds as many RunResults as
   the run counter says, the counter is between 0 and 3, and an evaluation
   tallies exactly 4 RunResults. *)
C24_AccumulatorMatchesCounter ==
    variant = "basic"
    => /\ Len(runResultsRef) = runCountRef
       /\ runCountRef \in 0..(MAX_RUNS_PER_CYCLE - 1)
       /\ (last.op = "run" /\ last.evaluated)
          => Len(last.results) = MAX_RUNS_PER_CYCLE

(* C24 for the runs of a behaviour in which no exception was raised. *)
AccumulatorMatchesCounterWithoutFaults ==
    last.faults = 0 => C24_AccumulatorMatchesCounter

----------------------------------------------------------------------------
(* The symbol is changed in the middle of a cycle: ticks arrive for the
   selected (subscribed) symbol, the buffer of the symbol left is kept *)

NextCycle ==
    \/ \E s \in {selectedSymbol} :
           received[s] < MinTicks /\ addTick(s)
    \/ handleStartStop
    \/ \E s \in Symbols : setSelectedSymbol(s)
    \/ \E callback \in timers, out \in LogOutcomes :
           nextId < MaxSignals /\ performAnalysis(callback, out)
    \/ \E callback \in timers, out \in LogOutcomes :
           nextId < MaxSignals /\ performAdvancedAnalysis(callback, out)

SpecCycle ==
    Init /\ [][NextCycle]_vars

(* C25: the RunResults tallied in one evaluation were all computed from ticks
   of one symbol, and a signal emitted by a run carries the symbol that the
   runs behind it analysed. *)
C25_CycleOfOneSymbol ==
    /\ (last.op = "run" /\ last.evaluated)
       => Cardinality(last.cycleSymbols) = 1
    /\ (last.op = "run" /\ last.created = 1)
       => last.cycleSymbols = {signals[1].symbol}

(* C25 for the advanced engine, whose runs do not accumulate. *)
AdvancedSignalOfOneSymbol ==
    variant = "advanced" => C25_CycleOfOneSymbol

----------------------------------------------------------------------------
(* The digit of an automatic signal, under Spec *)

(* C26: the digit of an exact_digit signal emitted by a cycle evaluation of
   the basic engine is the top digit of the evaluating run, the one whose
   probability was compared with the threshold and whose confidence the
   signal stores. *)
C26_SignalDigitIsLatestTop ==
    (EvaluatedBasic /\ last.emitted = "exact_digit")
    => /\ signals[1].predicted_digit = digitPredictions[1].digit
       /\ signals[1].confidence = digitPredictions[1].confidence

(* The confidence half of C26 alone. *)
SignalConfidenceIsLatestTop ==
    (EvaluatedBasic /\ last.emitted = "exact_digit")
    => signals[1].confidence = digitPredictions[1].confidence

----------------------------------------------------------------------------
(* The features of an emitted signal, under Spec *)

(* C27: a signal emitted by an analysis run stores the feature snapshot that
   this run computed, and a run that decides to generate a signal appends
   it. *)
C27_SignalStoresRunFeatures ==
    /\ (last.op = "run" /\ last.created = 1) => signals[1].features = features
    /\ (last.op = "run" /\ last.decided # "none") => last.created = 1

(* The first half of C27: no features of an earlier run. *)
SignalHasNoEarlierSnapshot ==
    (last.op = "run" /\ last.created = 1) => signals[1].features = features

(* The second half of C27: no signal dropped. *)
NoSignalDropped ==
    (last.op = "run" /\ last.decided # "none") => last.created = 1

----------------------------------------------------------------------------
(* The Generate Signal button of PredictionPanel, under Spec *)

(* The isAnalyzing state of the engine as the dashboard renders it.  Basic
   engine: set by every run that passes its guards and cleared by the
   evaluation, so it is true exactly in the middle of a cycle.  Advanced
   engine: set and cleared in the same run, so no render sees it true.  (An
   exception clears it too; no exception is raised under Spec.) *)
isAnalyzing ==
    variant = "basic" /\ runCountRef > 0

(* PredictionPanel: the button is rendered when isActive (the dashboard
   passes isAnalyzing) and is disabled unless hasHighConfidencePrediction or
   hasHighConfidenceBand. *)
ButtonEnabled ==
    LET threshold == riskSettings.probabilityThreshold
        hasHighConfidencePrediction ==
            digitPredictions # << >>
                /\ digitPredictions[1].probability >= threshold
        hasHighConfidenceBand ==
            bandPrediction # NoBandPrediction
                /\ (bandPrediction.over2 >= threshold
                       \/ bandPrediction.under7 >= threshold)
    IN  isAnalyzing /\ (hasHighConfidencePrediction \/ hasHighConfidenceBand)

DigitEnabledButtonAppendsSignal ==
    [][ (last'.op = "manual" /\ isAnalyzing /\ features # NoFeatures
             /\ digitPredictions # << >>
             /\ digitPredictions[1].probability
                    >= riskSettings.probabilityThreshold)
            => Len(signals') = Len(signals) + 1 ]_vars

----------------------------------------------------------------------------
(* Arming and clearing of the analysis interval: ticks, setting changes,
   symbol changes, runs and the unmount of the dashboard *)

Mounted ==
    last.op # "unmount"

(* The dashboard is unmounted: the cleanup of the interval effect runs, and
   nothing runs after it. *)
unmount ==
    /\ Mounted
    /\ timers' = ClearInterval(timers, analysisIntervalRef)
    /\ last' = Step("unmount")
    /\ UNCHANGED << calc, exported, ws, now, variant, selectedSymbol, isActive,
                    riskSettings, ticks, received, digitPredictions,
                    bandPrediction, signals, features, tenSecondPrediction,
                    runCountRef, runResultsRef, analysisCallback,
                    analysisIntervalRef, armedAt, nextId >>

NextArm ==
    \/ \E s \in {selectedSymbol} :
           Mounted /\ received[s] < MinTicks + ExtraTicks /\ addTick(s)
    \/ Mounted /\ handleStartStop
    \/ \E rs \in RiskChoices : Mounted /\ setRiskSettings(rs)
    \/ \E s \in Symbols : Mounted /\ setSelectedSymbol(s)
    \/ \E callback \in timers, out \in LogOutcomes :
           Mounted /\ nextId < MaxSignals /\ performAnalysis(callback, out)
    \/ \E callback \in timers, out \in LogOutcomes :
           Mounted /\ nextId < MaxSignals
               /\ performAdvancedAnalysis(callback, out)
    \/ unmount

SpecArm ==
    Init /\ [][NextArm]_vars

(* C29: at most one analysis interval is armed at any time; none is armed
   while the buffer of the selected symbol is below the minimum length, and
   none after the unmount. *)
C29_SingleArmedInterval ==
    /\ Cardinality(timers) <= 1
    /\ Len(TicksProp(ticks, selectedSymbol)) < MinTicks => timers = {}
    /\ ~Mounted => timers = {}

(* The dashboard was unmounted in the middle of a cycle, after a symbol
   change, while an interval was armed for a long enough buffer. *)
C29_Witness ==
    /\ ~Mounted
    /\ selectedSymbol # DefaultSymbol
    /\ Len(TicksProp(ticks, selectedSymbol)) > MinTicks
    /\ analysisIntervalRef.symbol = selectedSymbol
    /\ riskSettings # DefaultRiskSettings
    /\ variant = "basic"
    /\ runCountRef > 0

----------------------------------------------------------------------------
(* The subscribe requests on the socket.  The browser opens a connecting
   socket or closes it, and the reconnect timeout fires: onopen and
   connectWebSocket are taken when they stay enabled. *)

SpecSocketFair ==
    SpecSocket /\ WF_vars(onopen) /\ WF_vars(connectWebSocket)

(* C30: whenever a symbol is in the subscription set while the socket is
   open, a tick-subscribe request for it is eventually sent on that
   connection (unless the symbol leaves the set or the connection is lost
   first). *)
C30_SubscribeEventuallySent ==
    \A s \in Symbols :
        [](s \in ws.subscriptions /\ ws.readyState = "OPEN"
             => <>(\/ s \in ws.sent
                   \/ s \notin ws.subscriptions
                   \/ ws.readyState # "OPEN"))

(* A subscribe call on the open socket is sent at once. *)
SubscribeOnOpenSocketSent ==
    [][ (selectedSymbol' # selectedSymbol /\ ws.readyState = "OPEN")
            => ws'.sent = {selectedSymbol'} ]_vars

====
